---- MODULE Spec2Model ----
(***************************************************************************)
(* A model of the upload-cloud-storage action: the run() entry point of    *)
(* src/src/main.ts, the path helpers of src/src/util.ts, the header parser *)
(* of src/src/headers.ts and the Client of src/src/upload-helper.ts        *)
(* (computeDestinations, upload, inParallel).                              *)
(*                                                                         *)
(* Strings are sequences of one-character strings, so that trimming,       *)
(* splitting, joining and normalising are computed character by character  *)
(* as the code (and Node's path.posix, on a POSIX host) computes them.     *)
(***************************************************************************)
EXTENDS Integers, Sequences, FiniteSets, TLC

(***************************************************************************)
(* Bounds of the model.                                                    *)
(***************************************************************************)
\* the number of relative file paths that can exist under a root
MaxFiles == 3
\* the largest concurrency input
MaxConcurrency == 2
\* the largest number of CPUs of the host
MaxCpus == 2
\* the longest destination / root string of the pure destination check
MaxLen == 3

(***************************************************************************)
(* Strings.                                                                *)
(***************************************************************************)
Slash == "/"
Backslash == "\\"
Dot == "."
Space == " "
Newline == "\n"
Comma == ","
Colon == ":"
Return == "\r"

\* a hole of a sparse JavaScript array / an output that was never set
Hole == <<"<hole>">>
Unset == <<"<unset>">>

\* UTF-16 code units of the characters used, for Array.prototype.sort()
Code(c) ==
  CASE c = Space -> 32
    [] c = "*" -> 42
    [] c = Comma -> 44
    [] c = Dot -> 46
    [] c = Slash -> 47
    [] c = Backslash -> 92
    [] c = "a" -> 97
    [] c = "b" -> 98
    [] c = "d" -> 100
    [] c = "f" -> 102
    [] c = "p" -> 112
    [] c = "s" -> 115
    [] c = "w" -> 119
    [] OTHER -> 127

RECURSIVE StrLess(_, _)
\* s < t as JavaScript compares strings (by code unit, a prefix is smaller)
StrLess(s, t) ==
  IF t = <<>> THEN FALSE
  ELSE IF s = <<>> THEN TRUE
  ELSE IF Code(Head(s)) # Code(Head(t)) THEN Code(Head(s)) < Code(Head(t))
  ELSE StrLess(Tail(s), Tail(t))

RECURSIVE SplitAcc(_, _, _, _)
SplitAcc(s, sep, i, cur) ==
  IF i > Len(s) THEN <<cur>>
  ELSE IF s[i] = sep THEN <<cur>> \o SplitAcc(s, sep, i + 1, <<>>)
  ELSE SplitAcc(s, sep, i + 1, Append(cur, s[i]))

\* String.prototype.split(sep): the pieces between the separators, empty
\* pieces included
Split(s, sep) == SplitAcc(s, sep, 1, <<>>)

RECURSIVE JoinWith(_, _)
\* Array.prototype.join(sep) of an array without holes
JoinWith(parts, sep) ==
  IF parts = <<>> THEN <<>>
  ELSE IF Len(parts) = 1 THEN parts[1]
  ELSE parts[1] \o <<sep>> \o JoinWith(Tail(parts), sep)

RECURSIVE ReplaceChar(_, _, _)
ReplaceChar(s, from, to) ==
  IF s = <<>> THEN <<>>
  ELSE <<IF Head(s) \in from THEN to ELSE Head(s)>> \o ReplaceChar(Tail(s), from, to)

RECURSIVE TrimStart(_)
TrimStart(s) ==
  IF s # <<>> /\ Head(s) \in {Space, Newline, Return} THEN TrimStart(Tail(s)) ELSE s

RECURSIVE TrimEnd(_)
TrimEnd(s) ==
  IF s # <<>> /\ s[Len(s)] \in {Space, Newline, Return}
  THEN TrimEnd(SubSeq(s, 1, Len(s) - 1)) ELSE s

\* String.prototype.trim()
Trim(s) == TrimEnd(TrimStart(s))

\* String.prototype.indexOf(c), 0-based, -1 when absent
IndexOf(s, c) ==
  IF \E i \in 1..Len(s) : s[i] = c
  THEN (CHOOSE i \in 1..Len(s) : s[i] = c /\ \A j \in 1..(i - 1) : s[j] # c) - 1
  ELSE -1

\* String.prototype.substring(from) and substring(from, to), 0-based
SubstringFrom(s, from) == SubSeq(s, from + 1, Len(s))
Substring(s, from, to) == SubSeq(s, from + 1, to)

(***************************************************************************)
(* actions-utils path helpers and Node's path.posix, on a POSIX host.      *)
(***************************************************************************)
\* toPosixPath: every backslash becomes a slash
toPosixPath(p) == ReplaceChar(p, {Backslash}, Slash)

\* toPlatformPath: every slash and backslash becomes path.sep ('/')
toPlatformPath(p) == ReplaceChar(p, {Backslash, Slash}, Slash)

RECURSIVE NormalizeSegs(_, _, _)
\* normalizeString of Node's path: the stack of segments left after empty
\* and '.' segments are skipped and '..' removes the segment before it
NormalizeSegs(segs, stack, allowAboveRoot) ==
  IF segs = <<>> THEN stack
  ELSE LET g == Head(segs) IN
    IF g = <<>> \/ g = <<Dot>> THEN NormalizeSegs(Tail(segs), stack, allowAboveRoot)
    ELSE IF g = <<Dot, Dot>> THEN
      IF stack # <<>> /\ stack[Len(stack)] # <<Dot, Dot>>
      THEN NormalizeSegs(Tail(segs), SubSeq(stack, 1, Len(stack) - 1), allowAboveRoot)
      ELSE IF allowAboveRoot
      THEN NormalizeSegs(Tail(segs), Append(stack, g), allowAboveRoot)
      ELSE NormalizeSegs(Tail(segs), stack, allowAboveRoot)
    ELSE NormalizeSegs(Tail(segs), Append(stack, g), allowAboveRoot)

\* path.posix.normalize
PosixNormalize(p) ==
  IF p = <<>> THEN <<Dot>>
  ELSE LET isAbsolute == p[1] = Slash
           trailingSeparator == p[Len(p)] = Slash
           body == JoinWith(NormalizeSegs(Split(p, Slash), <<>>, ~isAbsolute), Slash)
       IN IF body = <<>>
          THEN (IF isAbsolute THEN <<Slash>>
                ELSE IF trailingSeparator THEN <<Dot, Slash>> ELSE <<Dot>>)
          ELSE (IF isAbsolute THEN <<Slash>> ELSE <<>>) \o body
               \o (IF trailingSeparator THEN <<Slash>> ELSE <<>>)

\* path.posix.join: the non-empty arguments joined with '/', then normalised
PosixJoin(args) ==
  LET nonEmpty == SelectSeq(args, LAMBDA a : a # <<>>)
  IN IF nonEmpty = <<>> THEN <<Dot>> ELSE PosixNormalize(JoinWith(nonEmpty, Slash))

RECURSIVE StripTrailingSlashes(_)
StripTrailingSlashes(p) ==
  IF p # <<>> /\ p[Len(p)] = Slash
  THEN StripTrailingSlashes(SubSeq(p, 1, Len(p) - 1)) ELSE p

\* path.posix.basename: the last segment, trailing slashes ignored
PosixBasename(p) ==
  LET q == StripTrailingSlashes(p)
      segs == Split(q, Slash)
  IN IF q = <<>> THEN <<>> ELSE segs[Len(segs)]

\* path.posix.dirname
PosixDirname(p) ==
  IF p = <<>> THEN <<Dot>>
  ELSE LET hasRoot == p[1] = Slash
           \* the slashes at 0-based index >= 1 with a character other than
           \* '/' somewhere after them; the last one ends the directory
           cuts == {i \in 2..Len(p) :
                      p[i] = Slash /\ \E j \in (i + 1)..Len(p) : p[j] # Slash}
       IN IF cuts = {} THEN (IF hasRoot THEN <<Slash>> ELSE <<Dot>>)
          ELSE LET end == CHOOSE i \in cuts : \A k \in cuts : k <= i
               IN IF hasRoot /\ end = 2 THEN <<Slash, Slash>>
                  ELSE SubSeq(p, 1, end - 1)

\* path.resolve(base, p) for an absolute base
PathResolve(base, p) ==
  LET full == IF p # <<>> /\ p[1] = Slash THEN p
              ELSE IF p = <<>> THEN base ELSE base \o <<Slash>> \o p
  IN <<Slash>> \o JoinWith(NormalizeSegs(Split(full, Slash), <<>>, FALSE), Slash)

(***************************************************************************)
(* src/src/util.ts                                                         *)
(***************************************************************************)
\* process.env.GITHUB_WORKSPACE of the run
GithubWorkspace == <<Slash, "w">>

\* a variant that splits at the last '/'
parseBucketNameAndPrefixLastSlash(name) ==
  LET trimmed == Trim(name)
      slashes == {i \in 1..Len(trimmed) : trimmed[i] = Slash}
      idx == IF slashes = {} THEN -1
             ELSE (CHOOSE i \in slashes : \A j \in slashes : j <= i) - 1
  IN IF idx > -1
     THEN <<Trim(Substring(trimmed, 0, idx)), Trim(SubstringFrom(trimmed, idx + 1))>>
     ELSE <<trimmed, <<>>>>

\* parseBucketNameAndPrefix(name): <<bucket, prefix>>
parseBucketNameAndPrefix(name) ==
  LET trimmed == Trim(name)
      idx == IndexOf(trimmed, Slash)
  IN IF idx > -1
     THEN <<Trim(Substring(trimmed, 0, idx)), Trim(SubstringFrom(trimmed, idx + 1))>>
     ELSE <<trimmed, <<>>>>

\* absoluteRootAndComputedGlob(root, glob); kind is what fs.lstat finds at
\* the resolved root: "dir", "file" or "missing" (lstat throws)
absoluteRootAndComputedGlob(root, glob, kind) ==
  LET resolvedRoot == PathResolve(GithubWorkspace, toPlatformPath(root))
  IN IF kind = "missing"
     THEN [err |-> "ENOENT", absoluteRoot |-> <<>>, computedGlob |-> <<>>,
           rootIsDir |-> FALSE]
     ELSE IF kind = "file"
     THEN IF glob # <<>>
          THEN [err |-> "root path points to a file, but glob was also given",
                absoluteRoot |-> <<>>, computedGlob |-> <<>>, rootIsDir |-> FALSE]
          ELSE [err |-> "", absoluteRoot |-> PosixDirname(resolvedRoot),
                computedGlob |-> toPosixPath(PosixBasename(resolvedRoot)),
                rootIsDir |-> FALSE]
     ELSE [err |-> "", absoluteRoot |-> resolvedRoot,
           computedGlob |-> toPosixPath(glob), rootIsDir |-> TRUE]

\* the glob patterns of the model, as fast-glob matches a relative path:
\* '**/*' matches every file, '*' the files directly in the directory, any
\* other pattern here is a literal file name
GlobMatches(search, rel) ==
  IF search = <<"*", "*", Slash, "*">> THEN TRUE
  ELSE IF search = <<"*">> THEN IndexOf(rel, Slash) = -1
  ELSE rel = search

\* path.posix.relative(from, to) for two absolute, normalised paths
PosixRelative(from, to) ==
  LET f == NormalizeSegs(Split(from, Slash), <<>>, FALSE)
      t == NormalizeSegs(Split(to, Slash), <<>>, FALSE)
      common == {k \in 0..Len(f) : k <= Len(t) /\ \A i \in 1..k : f[i] = t[i]}
      k == CHOOSE n \in common : \A m \in common : m <= n
  IN JoinWith([i \in 1..(Len(f) - k) |-> <<Dot, Dot>>] \o SubSeq(t, k + 1, Len(t)),
              Slash)

RECURSIVE SortSet(_)
\* Array.prototype.sort() of the strings of a set
SortSet(S) ==
  IF S = {} THEN <<>>
  ELSE LET least == CHOOSE x \in S : \A y \in S \ {x} : StrLess(x, y)
       IN <<least>> \o SortSet(S \ {least})

\* expandGlob(directoryPath, glob); tree is the set of the relative paths
\* of the regular files under directoryPath
expandGlob(directoryPath, glob, tree) ==
  LET directoryPosix == toPosixPath(directoryPath)
      search == toPosixPath(IF glob # <<>> THEN glob ELSE <<"*", "*", Slash, "*">>)
      filesList == {directoryPath \o <<Slash>> \o rel :
                      rel \in {r \in tree : GlobMatches(search, r)}}
  IN SortSet({PosixRelative(directoryPosix, abs) : abs \in filesList})

\* whether the workspace-relative file f lies under the workspace-relative
\* directory dir ('' is the workspace itself)
IsUnder(dir, f) ==
  \/ dir = <<>>
  \/ /\ Len(f) > Len(dir) + 1
     /\ SubSeq(f, 1, Len(dir) + 1) = dir \o <<Slash>>

\* what fs.lstat finds at resolvedRoot when the workspace holds the regular
\* files of world (paths relative to the workspace)
LstatKind(world, resolvedRoot) ==
  LET rel == PosixRelative(GithubWorkspace, resolvedRoot)
  IN IF rel \in world THEN "file"
     ELSE IF rel = <<>> \/ \E f \in world : IsUnder(rel, f) THEN "dir"
     ELSE "missing"

\* the relative paths of the regular files under the directory dir
TreeUnder(world, dir) ==
  {PosixRelative(dir, GithubWorkspace \o <<Slash>> \o f) :
     f \in {g \in world : IsUnder(PosixRelative(GithubWorkspace, dir), g)}}

\* a variant of the duplicate removal that returns the files sorted
SetSpreadSorted(list) == SortSet({list[i] : i \in 1..Len(list)})

RECURSIVE SetSpread(_)
\* [...new Set(list)]: each value once, at the place of its first occurrence
SetSpread(list) ==
  IF list = <<>> THEN <<>>
  ELSE LET init == SetSpread(SubSeq(list, 1, Len(list) - 1))
           last == list[Len(list)]
       IN IF \E i \in 1..Len(init) : init[i] = last THEN init
          ELSE Append(init, last)

\* the files of one root as processMultiplePaths pushes them: each file of
\* the root's expansion, joined to the root and made relative to the
\* workspace
RelativeToWorkspace(pathAbsoluteRoot, pathFiles) ==
  [i \in 1..Len(pathFiles) |->
     PosixRelative(GithubWorkspace, PosixJoin(<<pathAbsoluteRoot, pathFiles[i]>>))]

\* what lstat finds at a path of the path input, resolved as
\* absoluteRootAndComputedGlob resolves it
PathKind(world, singlePath) ==
  LstatKind(world, PathResolve(GithubWorkspace, toPlatformPath(singlePath)))

\* absoluteRootAndComputedGlob(singlePath, glob) in the workspace
RootAndGlobOf(singlePath, glob, world) ==
  absoluteRootAndComputedGlob(singlePath, glob, PathKind(world, singlePath))

\* expandGlob(absoluteRoot, computedGlob) for what
\* absoluteRootAndComputedGlob returned
ExpandRoot(rg, world) ==
  expandGlob(rg.absoluteRoot, rg.computedGlob, TreeUnder(world, rg.absoluteRoot))

\* one turn of the loop of processMultiplePaths: rg is what
\* absoluteRootAndComputedGlob returned for the path, rest what the later
\* turns collect; a root that is rejected ends the loop with the error
CollectFrom(rg, rest, world) ==
  IF rg.err # "" THEN [err |-> rg.err, allFiles |-> <<>>]
  ELSE IF rest.err # "" THEN rest
  ELSE [err |-> "",
        allFiles |-> RelativeToWorkspace(rg.absoluteRoot, ExpandRoot(rg, world))
                       \o rest.allFiles]

RECURSIVE CollectPaths(_, _, _, _)
\* the loop of processMultiplePaths over the paths from index i on
CollectPaths(paths, i, glob, world) ==
  IF i > Len(paths) THEN [err |-> "", allFiles |-> <<>>]
  ELSE CollectFrom(RootAndGlobOf(paths[i], glob, world),
                   CollectPaths(paths, i + 1, glob, world), world)

\* pathInput.split('\n').map(trim).filter(non-empty)
SplitPaths(pathInput) ==
  SelectSeq([i \in 1..Len(Split(pathInput, Newline)) |->
               Trim(Split(pathInput, Newline)[i])],
            LAMBDA p : p # <<>>)

\* what processMultiplePaths throws or returns for one path
SinglePath(givenRoot, rg, world) ==
  IF rg.err # ""
  THEN [err |-> rg.err, files |-> <<>>, absoluteRoot |-> <<>>,
        givenRoot |-> <<>>, rootIsDir |-> FALSE]
  ELSE [err |-> "", files |-> ExpandRoot(rg, world),
        absoluteRoot |-> rg.absoluteRoot, givenRoot |-> givenRoot,
        rootIsDir |-> rg.rootIsDir]

\* what processMultiplePaths throws or returns for several paths (or
\* none), whose files the loop collected in all
MultiplePaths(all) ==
  IF all.err # ""
  THEN [err |-> all.err, files |-> <<>>, absoluteRoot |-> <<>>,
        givenRoot |-> <<>>, rootIsDir |-> FALSE]
  ELSE [err |-> "", files |-> SetSpread(all.allFiles),
        absoluteRoot |-> GithubWorkspace, givenRoot |-> GithubWorkspace,
        rootIsDir |-> TRUE]

\* processMultiplePaths once the path input is split
ProcessSplitPaths(paths, glob, world) ==
  IF Len(paths) = 1
  THEN SinglePath(paths[1], RootAndGlobOf(paths[1], glob, world), world)
  ELSE MultiplePaths(CollectPaths(paths, 1, glob, world))

\* processMultiplePaths(pathInput, glob) in a workspace with the files of
\* world
processMultiplePaths(pathInput, glob, world) ==
  ProcessSplitPaths(SplitPaths(pathInput), glob, world)

(***************************************************************************)
(* src/src/headers.ts.  A header name that the code knows is one element   *)
(* of the string: 'content-type', ..., and the prefix 'x-goog-meta-'.      *)
(***************************************************************************)
customMetadataPrefix == "x-goog-meta-"

\* a JavaScript object is a function from its keys; {} has none
EmptyObject == [k \in {} |-> <<>>]

\* obj[k] = v
ObjectSet(obj, k, v) ==
  [x \in (DOMAIN obj) \cup {k} |-> IF x = k THEN v ELSE obj[x]]

\* input.split(/\r?\n/): the pieces between line feeds; a carriage return
\* right before a line feed belongs to the separator
SplitLines(s) ==
  LET pieces == Split(s, Newline)
  IN [i \in 1..Len(pieces) |->
        IF i < Len(pieces) /\ pieces[i] # <<>> /\ pieces[i][Len(pieces[i])] = Return
        THEN SubSeq(pieces[i], 1, Len(pieces[i]) - 1)
        ELSE pieces[i]]

\* the message of a line parseHeaderLines rejects; i is the line's index
HeaderLineError(i, line, what) ==
  <<"Failed to parse header line ", ToString(i), " (\"">> \o line \o <<"\") - ", what>>

\* a variant of map.has that never finds the key
MapHasNever(map, key) == FALSE

\* map.has(key) for the Map as the sequence of its [key, value] entries
MapHas(map, key) == \E j \in 1..Len(map) : map[j][1] = key

RECURSIVE ParseHeaderLinesFrom(_, _, _)
\* the for loop of parseHeaderLines from line i (counted from 0) on, with
\* the Map built so far: [err, map], err the message of the error thrown
ParseHeaderLinesFrom(lines, i, map) ==
  IF i >= Len(lines) THEN [err |-> <<>>, map |-> map]
  ELSE LET line == Trim(lines[i + 1])
           idx == IndexOf(line, Colon)
           key == Trim(Substring(line, 0, idx))
           value == Trim(SubstringFrom(line, idx + 1))
       IN IF line = <<>> THEN ParseHeaderLinesFrom(lines, i + 1, map)
          ELSE IF idx = -1
          THEN [err |-> HeaderLineError(i, line, "the expected format is \"key: value\""),
                map |-> <<>>]
          ELSE IF key = <<>>
          THEN [err |-> HeaderLineError(i, line, "missing key"), map |-> <<>>]
          ELSE IF value = <<>>
          THEN [err |-> HeaderLineError(i, line, "missing value"), map |-> <<>>]
          ELSE IF MapHas(map, key)
          THEN [err |-> HeaderLineError(i, line, "key already exists"), map |-> <<>>]
          ELSE ParseHeaderLinesFrom(lines, i + 1, Append(map, <<key, value>>))

\* parseHeaderLines(input)
parseHeaderLines(input) == ParseHeaderLinesFrom(SplitLines(input), 0, <<>>)

\* the property of Metadata the switch of parseHeadersInput sets for a key,
\* "" for a key it does not know
MetadataField(key) ==
  CASE key = <<"cache-control">> -> "cacheControl"
    [] key = <<"content-disposition">> -> "contentDisposition"
    [] key = <<"content-encoding">> -> "contentEncoding"
    [] key = <<"content-language">> -> "contentLanguage"
    [] key = <<"content-type">> -> "contentType"
    [] key = <<"custom-time">> -> "customTime"
    [] OTHER -> ""

\* a variant that takes every key it does not know as custom metadata
HeaderIsCustomAlways(key) == MetadataField(key) = ""

\* key.startsWith(customMetadataPrefix)
HeaderIsCustom(key) == key # <<>> /\ key[1] = customMetadataPrefix

RECURSIVE HeadersForEach(_, _, _)
\* headers.forEach((value, key) => ...) from entry j on, with the metadata
\* object built so far
HeadersForEach(map, j, metadata) ==
  IF j > Len(map) THEN [err |-> <<>>, metadata |-> metadata]
  ELSE LET key == map[j][1]
           value == map[j][2]
       IN IF HeaderIsCustom(key)
          THEN LET custom == IF "metadata" \in DOMAIN metadata
                             THEN metadata["metadata"] ELSE EmptyObject
               IN HeadersForEach(map, j + 1,
                    ObjectSet(metadata, "metadata", ObjectSet(custom, Tail(key), value)))
          ELSE IF MetadataField(key) # ""
          THEN HeadersForEach(map, j + 1, ObjectSet(metadata, MetadataField(key), value))
          ELSE [err |-> <<"Invalid header key \"">> \o key \o
                        <<"\" - custom header keys must be prefixed with \"x-goog-meta-\"">>,
                metadata |-> EmptyObject]

\* parseHeadersInput(input): [err, metadata]; when err is not empty the
\* function threw and returned nothing
parseHeadersInput(input) ==
  LET headers == parseHeaderLines(input)
  IN IF headers.err # <<>> THEN [err |-> headers.err, metadata |-> EmptyObject]
     ELSE HeadersForEach(headers.map, 1, EmptyObject)

(***************************************************************************)
(* src/src/upload-helper.ts: Client.computeDestinations                    *)
(***************************************************************************)
\* a variant that takes the parent's name from the resolved root
DestinationOfResolvedRoot(opts, name) ==
  LET base == IF opts.includeParent
              THEN PosixBasename(toPosixPath(opts.absoluteRoot)) ELSE <<>>
  IN PosixJoin(<<opts.prefix, base, name>>)

\* the destination of one file
DestinationOf(opts, name) ==
  LET base == IF opts.includeParent
              THEN PosixBasename(toPosixPath(opts.givenRoot)) ELSE <<>>
  IN PosixJoin(<<opts.prefix, base, name>>)

\* the absolute source path of one file
SourceOf(opts, name) == PathResolve(opts.absoluteRoot, toPlatformPath(name))

\* Client.computeDestinations(opts)
computeDestinations(opts) ==
  [i \in 1..Len(opts.files) |->
     [source |-> SourceOf(opts, opts.files[i]),
      destination |-> DestinationOf(opts, opts.files[i])]]

(***************************************************************************)
(* The state of one run of the action.                                     *)
(***************************************************************************)
VARIABLES
  pc,            \* where run() is: "start", "uploading" or "done"
  input,         \* the inputs of the run and what the file system holds
  files,         \* main.ts: the file list after the ignore filter
  bucket,        \* main.ts: the bucket of the destination input
  prefix,        \* main.ts: the prefix of the destination input
  destinations,  \* main.ts: the result of Client.computeDestinations
  concurrency,   \* inParallel: the concurrency after the default is applied
  iter,          \* inParallel: the next index of the shared tasks.entries()
  workers,       \* inParallel: per worker the task it awaits (0: finished)
  taskState,     \* per task: "pending", "inflight", "threw" (its callback
                 \* threw), "fulfilled", "rejected"
  calls,         \* the store calls issued so far, in the order of issue
  settled,       \* the tasks whose store call settled, in that order
  results,       \* inParallel: the results array (sparse)
  errors,        \* inParallel: the errors array (sparse)
  rejection,     \* the message of the error inParallel threw, or Unset
  uploaded,      \* the 'uploaded' output, or Unset
  failed,        \* the message given to core.setFailed, or Unset
  warnings,      \* the warnings run() emitted
  rootAndGlob,   \* main.ts: what absoluteRootAndComputedGlob returned
  log,           \* the files core.error was called for, in that order
  heap,          \* the metadata objects: 0 is main.ts's metadata, the
                 \* template of Client.upload; i > 0 is owned by task i
  uploadOpts,    \* per started task its uploadOpts object
  events,        \* the onUploadObject and the store calls, in their order
  pool           \* workerPool.ts: a WorkerPool, its semaphore and its calls

vars == <<pc, input, files, bucket, prefix, destinations, concurrency, iter,
          workers, taskState, calls, settled, results, errors, rejection,
          uploaded, failed, warnings, rootAndGlob, log, heap, uploadOpts,
          events, pool>>

\* the relative paths of the files a root directory can hold
AllFiles ==
  << <<"a">>, <<"b">>, <<"s", Slash, "a">>, <<"s", Slash, "b">>,
     <<"s", Slash, "s">> >>
FileUniverse == {AllFiles[i] : i \in 1..MaxFiles}

\* the inputs the run is explored with
RunRoots == { <<"d">>, <<"p", Slash, "d">> }
RunGlobs == { <<>>, <<"*">> }
RunDestinations == { <<"b">>, <<"b", Slash, "p">> }
RunConcurrencies == (-1)..MaxConcurrency
\* the headers input: none, two good lines, a line with an unknown key
RunHeaders ==
  { <<>>,
    <<"content-type", Colon, Space, "a", Newline, customMetadataPrefix, "a", Colon, "b">>,
    <<"a", Colon, Space, "a">> }

NoInput ==
  [root |-> <<>>, kind |-> "dir", tree |-> {}, glob |-> <<>>,
   destination |-> <<>>, includeParent |-> FALSE, concurrency |-> 0,
   cpus |-> 0, processGcloudIgnore |-> FALSE, ignored |-> {},
   throwing |-> {}, headers |-> <<>>, nan |-> FALSE, paths |-> <<>>,
   world |-> {}, callbackThrows |-> {}]

\* a worker pool that is not used
NoPool ==
  [max |-> 0, queue |-> <<>>, started |-> FALSE, active |-> 0, running |-> {},
   calls |-> <<>>, completed |-> <<>>, queueCalls |-> <<>>]

\* what absoluteRootAndComputedGlob has returned before it is called
NoRootAndGlob ==
  [err |-> "", absoluteRoot |-> <<>>, computedGlob |-> <<>>, rootIsDir |-> FALSE]

Init ==
  /\ pc = "start"
  /\ input = NoInput
  /\ files = <<>>
  /\ bucket = <<>>
  /\ prefix = <<>>
  /\ destinations = <<>>
  /\ concurrency = 0
  /\ iter = 1
  /\ workers = <<>>
  /\ taskState = <<>>
  /\ calls = <<>>
  /\ settled = <<>>
  /\ results = <<>>
  /\ errors = <<>>
  /\ rejection = Unset
  /\ uploaded = Unset
  /\ failed = Unset
  /\ warnings = {}
  /\ rootAndGlob = NoRootAndGlob
  /\ log = <<>>
  /\ heap = EmptyObject
  /\ uploadOpts = <<>>
  /\ events = <<>>
  /\ pool = NoPool

(***************************************************************************)
(* src/src/main.ts: the ignore filter of run()                             *)
(***************************************************************************)
\* ignores.ignores(name): "true", "false", or "throws" when the call
\* throws; ignores holds the files the ignore list matches and the files
\* the predicate throws for
IgnoresResult(ignores, name) ==
  IF name \in ignores.throwing THEN "throws"
  ELSE IF name \in ignores.ignored THEN "true" ELSE "false"

RECURSIVE IgnoreLoopSkipping(_, _, _)
\* a variant without the i-- after splice: it skips the file that follows a
\* removed one
IgnoreLoopSkipping(list, i, ignores) ==
  IF i > Len(list) THEN list
  ELSE IF IgnoresResult(ignores, list[i]) = "true"
  THEN IgnoreLoopSkipping(SubSeq(list, 1, i - 1) \o SubSeq(list, i + 1, Len(list)),
                          i + 1, ignores)
  ELSE IgnoreLoopSkipping(list, i + 1, ignores)

RECURSIVE IgnoreLoop(_, _, _)
\* for (let i = 0; i < files.length; i++) { try { if (ignores.ignores(files[i]))
\* { files.splice(i, 1); i--; } } catch (err) { core.error(...) } }, with i
\* counted from 1: when the predicate returns false, and when it throws and
\* the catch block has logged the error, the loop goes on with i + 1
IgnoreLoop(list, i, ignores) ==
  IF i > Len(list) THEN list
  ELSE IF IgnoresResult(ignores, list[i]) = "true"
  THEN IgnoreLoop(SubSeq(list, 1, i - 1) \o SubSeq(list, i + 1, Len(list)),
                  (i - 1) + 1, ignores)
  ELSE IgnoreLoop(list, i + 1, ignores)

\* the files the catch block of the loop calls core.error for: a file the
\* predicate throws for is never removed, so the loop meets each once
IgnoreLoopLog(list, ignores) ==
  SelectSeq(list, LAMBDA name : IgnoresResult(ignores, name) = "throws")

\* the file list run() uploads
IgnoreFilter(list, processGcloudIgnore, ignores) ==
  IF processGcloudIgnore THEN IgnoreLoop(list, 1, ignores) ELSE list

\* a variant that warns about no file at all
WarnsNoFilesNever(list) == FALSE

\* if (files.length === 0) core.warning(NO_FILES_WARNING)
WarnsNoFiles(list) == Len(list) = 0

\* a variant that passes the parent input as it is
IncludeParentAlways(includeParent, rootIsDir) == includeParent

\* includeParent: includeParent && rootIsDir
IncludeParentArg(includeParent, rootIsDir) == includeParent /\ rootIsDir

\* core.setFailed's message for an error message
FailedMessage(msg) == <<"google-github-actions/upload-cloud-storage failed with: ">> \o msg

(***************************************************************************)
(* src/src/upload-helper.ts: Client.upload and inParallel                  *)
(***************************************************************************)
\* a variant that takes the concurrency as given, without the default
EffectiveConcurrencyAsGiven(c, cpus) == c

\* concurrency || oscpus().length - 1
EffectiveConcurrency(c, cpus) == IF c # 0 THEN c ELSE cpus - 1

\* concurrency || oscpus().length - 1 for the number main.ts passes, which
\* is NaN or the integer c: NaN is falsy, as 0 is
InParallelConcurrency(nan, c, cpus) ==
  IF nan THEN cpus - 1 ELSE EffectiveConcurrency(c, cpus)

\* a variant with one worker too many
WorkerCountOffByOne(c) == c + 1

\* new Array(concurrency): the number of workers
WorkerCount(c) == c

\* a variant that pushes v instead of storing it at idx
ArrayPush(arr, idx, v) == Append(arr, v)

\* arr[idx] = v on a JavaScript array, idx counted from 1: the array grows
\* with holes up to idx
ArraySet(arr, idx, v) ==
  IF idx <= Len(arr) THEN [arr EXCEPT ![idx] = v]
  ELSE arr \o [i \in 1..(idx - Len(arr) - 1) |-> Hole] \o <<v>>

\* errors.join('\n'): a hole is joined as the empty string
ErrorsJoin(arr) ==
  JoinWith([i \in 1..Len(arr) |-> IF arr[i] = Hole THEN <<>> ELSE arr[i]], Newline)

\* uploadResponses.join(',')
UploadedOutput(arr) ==
  JoinWith([i \in 1..Len(arr) |-> IF arr[i] = Hole THEN <<>> ELSE arr[i]], Comma)

\* the store call task idx issues: storageBucket.upload(source, uploadOpts)
StoreCall(dests, idx) ==
  [source |-> dests[idx].source, destination |-> dests[idx].destination]

\* response[0].name of a fulfilled store call: the object's name
StoreName(dests, idx) == dests[idx].destination

\* errorMessage(err) of a rejected store call: the store's message names
\* the source file
StoreError(dests, idx) == Trim(<<"cannot upload ">> \o dests[idx].source)

\* errorMessage(err) of the exception an onUploadObject callback throws for
\* the task's file
CallbackError(dests, idx) == Trim(<<"callback failed for ">> \o dests[idx].source)

\* a variant that returns the object it was given
deepCloneSameObject(opts, objects, id) == [opts |-> opts, heap |-> objects]

\* deepClone(obj) of util.ts for an options object whose metadata is the
\* object objects[opts.metadata]: the copy's metadata is a new object, id,
\* with the same content
deepClone(opts, objects, id) ==
  [opts |-> [opts EXCEPT !.metadata = id],
   heap |-> [o \in (DOMAIN objects) \cup {id} |->
               IF o = id THEN objects[opts.metadata] ELSE objects[o]]]

\* the store modifies the options object it is given (see the comment in
\* Client.upload): it sets the content type of the metadata it received
StoreModifies(objects, opts, source) ==
  [objects EXCEPT ![opts.metadata] = ObjectSet(@, "contentType", <<"type of ">> \o source)]

\* a variant that calls the store before the callback
TaskEventsStoreFirst(callback, store) == <<store, callback>>

\* the task calls opts.onUploadObject and then storageBucket.upload
TaskEvents(callback, store) == <<callback, store>>

\* the synchronous part of task idx of Client.upload, up to its await: it
\* builds the options, clones them, calls onUploadObject and the store
\* the task whose callback returns: it calls storageBucket.upload and
\* awaits it
TaskUploads(st, idx, opts, cloned, callback, store) ==
  [st EXCEPT !.heap = StoreModifies(cloned.heap, opts, st.dests[idx].source),
             !.uploadOpts = Append(@, opts),
             !.events = @ \o TaskEvents(callback, store),
             !.calls = Append(@, StoreCall(st.dests, idx))]

\* a variant in which the exception of the callback is swallowed
TaskThrowsSwallowed(st, idx, opts, cloned, callback, store) ==
  TaskUploads(st, idx, opts, cloned, callback, store)

\* the task whose callback throws: the exception leaves the async function,
\* whose promise is rejected, and nothing after the callback runs
TaskThrows(st, idx, opts, cloned, callback, store) ==
  [st EXCEPT !.heap = cloned.heap,
             !.uploadOpts = Append(@, opts),
             !.events = Append(@, callback),
             !.taskState[idx] = "threw"]

\* the task idx of Client.upload, up to its await or its throw
TaskStart(st, idx) ==
  LET source == st.dests[idx].source
      destination == st.dests[idx].destination
      shadowedUploadOpts == [destination |-> destination, metadata |-> 0]
      cloned == deepClone(shadowedUploadOpts, st.heap, idx)
      opts == cloned.opts
      \* the options as the callee reads them at the call
      read == [destination |-> opts.destination, metadata |-> cloned.heap[opts.metadata]]
      callback == [kind |-> "onUploadObject", task |-> idx, source |-> source,
                   destination |-> PosixJoin(<<st.bucket, destination>>),
                   opts |-> read]
      store == [kind |-> "upload", task |-> idx, source |-> source,
                destination |-> destination, opts |-> read]
  IN IF idx \in st.throws
     THEN TaskThrows(st, idx, opts, cloned, callback, store)
     ELSE TaskUploads(st, idx, opts, cloned, callback, store)

\* a variant of the iterator that yields the entries from the last to the
\* first
EntryAtReversed(tasks, pos) == Len(tasks) + 1 - pos

\* tasks.entries(): the entry the iterator yields at position pos is
\* [idx, task] with idx = pos
EntryAt(tasks, pos) == pos

\* one turn of a worker's for-of loop: it takes the next entry of the
\* shared iterator and calls the task, or finishes when there is none
WorkerNext(st, w) ==
  IF st.iter <= Len(st.taskState)
  THEN LET idx == EntryAt(st.taskState, st.iter)
       IN TaskStart([st EXCEPT !.iter = @ + 1,
                               !.workers[w] = idx,
                               !.taskState[idx] = "inflight"], idx)
  ELSE [st EXCEPT !.workers[w] = 0]

RECURSIVE StartWorkers(_, _)
\* new Array(concurrency).fill(tasks.entries()).map(runTasks): each worker
\* runs up to its first await, in worker order
StartWorkers(st, w) ==
  IF w > Len(st.workers) THEN st ELSE StartWorkers(WorkerNext(st, w), w + 1)

\* the state of Client.upload when the synchronous part of inParallel has
\* run; metadata is the content of opts.metadata, throws the tasks whose
\* onUploadObject callback throws
InParallelStartWith(dests, c, bucketName, metadata, throws) ==
  StartWorkers([iter |-> 1,
                workers |-> [w \in 1..WorkerCount(c) |-> 0],
                taskState |-> [i \in 1..Len(dests) |-> "pending"],
                calls |-> <<>>,
                dests |-> dests,
                bucket |-> bucketName,
                heap |-> [o \in {0} |-> metadata],
                uploadOpts |-> <<>>,
                events |-> <<>>,
                throws |-> throws], 1)

\* Client.upload as run() calls it: its callback logs and returns
InParallelStart(dests, c, bucketName, metadata) ==
  InParallelStartWith(dests, c, bucketName, metadata, {})

\* a variant that looks at the first entry only
HasErrorsFirstOnly(arr) == Len(arr) > 0 /\ arr[1] # Hole

\* errors.length > 0
HasErrors(arr) == Len(arr) > 0

(***************************************************************************)
(* run() of src/src/main.ts, from its start up to the first await of the   *)
(* store: the inputs are read, the file list is built and filtered, the    *)
(* destinations are computed and Client.upload starts inParallel, whose    *)
(* workers each issue their first store call.                              *)
(***************************************************************************)
\* run() ends in its catch block: core.setFailed
RunFails(msg) ==
  /\ pc' = "done"
  /\ failed' = FailedMessage(msg)

\* the inputs beside path, glob, destination, parent, an integer
\* concurrency and an ignore list that is processed are explored for the
\* root 'd' and the destination 'b'
PlainRun(root, glob, destination) ==
  root = <<"d">> /\ glob = <<>> /\ destination = <<"b">>

RunStart ==
  /\ pc = "start"
  /\ UNCHANGED pool
  /\ \E root \in RunRoots, kind \in {"dir", "file", "missing"}, glob \in RunGlobs,
        destination \in RunDestinations, includeParent \in BOOLEAN,
        c \in RunConcurrencies, nan \in BOOLEAN, cpus \in 1..MaxCpus,
        headers \in RunHeaders, processGcloudIgnore \in BOOLEAN,
        dirTree \in SUBSET FileUniverse :
       LET resolvedRoot == PathResolve(GithubWorkspace, toPlatformPath(root))
           tree == IF kind = "dir" THEN dirTree
                   ELSE IF kind = "file" THEN {PosixBasename(resolvedRoot)}
                   ELSE {}
       IN \E ignored \in SUBSET tree :
          \E throwing \in (IF processGcloudIgnore THEN SUBSET (tree \ ignored) ELSE {{}}) :
       LET inp == [root |-> root, kind |-> kind, tree |-> tree, glob |-> glob,
                   destination |-> destination, includeParent |-> includeParent,
                   concurrency |-> c,
                   cpus |-> IF c = 0 THEN cpus ELSE 0,
                   processGcloudIgnore |-> processGcloudIgnore,
                   ignored |-> ignored, throwing |-> throwing,
                   headers |-> headers, nan |-> nan, paths |-> <<>>,
                   world |-> {}, callbackThrows |-> {}]
           ignores == [ignored |-> ignored, throwing |-> throwing]
           parsed == IF headers = <<>> THEN [err |-> <<>>, metadata |-> EmptyObject]
                     ELSE parseHeadersInput(headers)
           rg == absoluteRootAndComputedGlob(root, glob, kind)
           expanded == expandGlob(rg.absoluteRoot, rg.computedGlob, tree)
           list == IgnoreFilter(expanded, processGcloudIgnore, ignores)
           bp == parseBucketNameAndPrefix(destination)
           dests == computeDestinations(
                      [givenRoot |-> root, absoluteRoot |-> rg.absoluteRoot,
                       files |-> list, prefix |-> bp[2],
                       includeParent |-> IncludeParentArg(includeParent, rg.rootIsDir)])
           eff == InParallelConcurrency(nan, c, cpus)
           st == InParallelStart(dests, eff, bp[1], parsed.metadata)
       IN /\ kind = "dir" \/ dirTree = {}
          \* the nested root goes with the destination that has a prefix,
          \* the ignore list is explored without a glob, and more than one
          \* worker is explored for the root 'd' without an ignore list
          /\ root = <<"d">> <=> destination = <<"b">>
          /\ processGcloudIgnore => glob = <<>>
          /\ eff > 1 => (root = <<"d">> /\ ~processGcloudIgnore)
          /\ nan => c = 0
          /\ (~processGcloudIgnore /\ ignored # {}) =>
               PlainRun(root, glob, destination) /\ ~includeParent /\ c >= 1
          /\ headers # <<>> =>
               /\ PlainRun(root, glob, destination)
               /\ ~processGcloudIgnore /\ ignored = {} /\ ~nan
          /\ throwing # {} =>
               PlainRun(root, glob, destination) /\ ~includeParent /\ ~nan /\ c >= 1
          /\ nan => /\ PlainRun(root, glob, destination)
                    /\ ~processGcloudIgnore /\ ignored = {}
          /\ input' = inp
          /\ IF parsed.err # <<>>
             THEN /\ RunFails(parsed.err)
                  /\ UNCHANGED <<files, bucket, prefix, destinations, concurrency,
                                 iter, workers, taskState, calls, settled, results,
                                 errors, rejection, uploaded, warnings, rootAndGlob,
                                 log, heap, uploadOpts, events>>
             ELSE IF rg.err # ""
             THEN /\ RunFails(<<rg.err>>)
                  /\ heap' = [o \in {0} |-> parsed.metadata]
                  /\ UNCHANGED <<files, bucket, prefix, destinations, concurrency,
                                 iter, workers, taskState, calls, settled, results,
                                 errors, rejection, uploaded, warnings, rootAndGlob,
                                 log, uploadOpts, events>>
             ELSE /\ rootAndGlob' = rg
                  /\ files' = list
                  /\ log' = IF processGcloudIgnore THEN IgnoreLoopLog(expanded, ignores)
                            ELSE <<>>
                  /\ warnings' = IF WarnsNoFiles(list) THEN warnings \cup {"NO_FILES"}
                                 ELSE warnings
                  /\ bucket' = bp[1]
                  /\ prefix' = bp[2]
                  /\ destinations' = dests
                  /\ concurrency' = eff
                  /\ IF eff < 1
                     THEN /\ rejection' = <<"concurrency must be at least 1">>
                          /\ RunFails(<<"concurrency must be at least 1">>)
                          /\ heap' = [o \in {0} |-> parsed.metadata]
                          /\ UNCHANGED <<iter, workers, taskState, calls, settled,
                                         results, errors, uploaded, uploadOpts,
                                         events>>
                     ELSE /\ pc' = "uploading"
                          /\ iter' = st.iter
                          /\ workers' = st.workers
                          /\ taskState' = st.taskState
                          /\ calls' = st.calls
                          /\ heap' = st.heap
                          /\ uploadOpts' = st.uploadOpts
                          /\ events' = st.events
                          /\ UNCHANGED <<settled, results, errors, rejection,
                                         uploaded, failed>>

(***************************************************************************)
(* A store call settles and the worker that awaits it goes on: it records  *)
(* the result or the error message at the task's index and takes the next  *)
(* entry of the shared iterator.                                           *)
(***************************************************************************)
WorkerResumes(w, settledAs, st) ==
  /\ iter' = st.iter
  /\ workers' = st.workers
  /\ taskState' = st.taskState
  /\ calls' = st.calls
  /\ heap' = st.heap
  /\ uploadOpts' = st.uploadOpts
  /\ events' = st.events
  /\ settled' = Append(settled, workers[w])

\* the state of the loop when worker w's store call has settled
Settled(w, settledAs) ==
  [iter |-> iter, workers |-> workers,
   taskState |-> [taskState EXCEPT ![workers[w]] = settledAs],
   calls |-> calls, dests |-> destinations, bucket |-> bucket, heap |-> heap,
   uploadOpts |-> uploadOpts, events |-> events,
   throws |-> input.callbackThrows]

\* after results[idx] = await task() the loop goes on with the next entry
ResumeAfterFulfil(st, w) == WorkerNext(st, w)

\* a variant that calls the failed task again
RetryAfterReject(st, w) ==
  TaskStart([st EXCEPT !.taskState[st.workers[w]] = "inflight"], st.workers[w])

\* a variant whose worker never goes on after an error
HangAfterReject(st, w) == st

\* a variant whose worker stops at the first error
StopAfterReject(st, w) == [st EXCEPT !.workers[w] = 0]

\* the catch block is inside the loop: after errors[idx] = ... the loop
\* goes on with the next entry
ResumeAfterReject(st, w) == WorkerNext(st, w)

\* results[idx] = await task()
StoreFulfils(w) ==
  /\ pc = "uploading"
  /\ UNCHANGED pool
  /\ workers[w] # 0
  /\ taskState[workers[w]] = "inflight"
  /\ results' = ArraySet(results, workers[w], StoreName(destinations, workers[w]))
  /\ WorkerResumes(w, "fulfilled", ResumeAfterFulfil(Settled(w, "fulfilled"), w))
  /\ UNCHANGED <<pc, input, files, bucket, prefix, destinations, concurrency,
                 errors, rejection, uploaded, failed, warnings, rootAndGlob, log>>

\* catch (err) { errors[idx] = errorMessage(err) }
StoreRejects(w) ==
  /\ pc = "uploading"
  /\ UNCHANGED pool
  /\ workers[w] # 0
  /\ taskState[workers[w]] = "inflight"
  /\ errors' = ArraySet(errors, workers[w], StoreError(destinations, workers[w]))
  /\ WorkerResumes(w, "rejected", ResumeAfterReject(Settled(w, "rejected"), w))
  /\ UNCHANGED <<pc, input, files, bucket, prefix, destinations, concurrency,
                 results, rejection, uploaded, failed, warnings, rootAndGlob, log>>

\* the task's promise was rejected by its callback's exception: the catch
\* block records errorMessage(err) and the loop goes on
CallbackRejects(w) ==
  /\ pc = "uploading"
  /\ UNCHANGED pool
  /\ workers[w] # 0
  /\ taskState[workers[w]] = "threw"
  /\ errors' = ArraySet(errors, workers[w], CallbackError(destinations, workers[w]))
  /\ WorkerResumes(w, "rejected", ResumeAfterReject(Settled(w, "rejected"), w))
  /\ UNCHANGED <<pc, input, files, bucket, prefix, destinations, concurrency,
                 results, rejection, uploaded, failed, warnings, rootAndGlob, log>>

(***************************************************************************)
(* Every worker has finished: Promise.allSettled(workers) resolves,        *)
(* inParallel throws the joined errors or returns the results, and run()   *)
(* sets the output or fails.                                               *)
(***************************************************************************)
AllSettled ==
  /\ pc = "uploading"
  /\ UNCHANGED pool
  /\ \A w \in 1..Len(workers) : workers[w] = 0
  /\ IF HasErrors(errors)
     THEN /\ rejection' = ErrorsJoin(errors)
          /\ RunFails(ErrorsJoin(errors))
          /\ UNCHANGED uploaded
     ELSE /\ pc' = "done"
          /\ uploaded' = UploadedOutput(results)
          /\ UNCHANGED <<rejection, failed>>
  /\ UNCHANGED <<input, files, bucket, prefix, destinations, concurrency, iter,
                 workers, taskState, calls, settled, results, errors, warnings,
                 rootAndGlob, log, heap, uploadOpts, events>>

Next ==
  \/ RunStart
  \/ \E w \in 1..Len(workers) : StoreFulfils(w)
  \/ \E w \in 1..Len(workers) : StoreRejects(w)
  \/ AllSettled

Spec == Init /\ [][Next]_vars

(***************************************************************************)
(* Properties of inParallel and of run().                                  *)
(***************************************************************************)
ConcurrencyError == <<"concurrency must be at least 1">>

\* the tasks whose store call was issued and has not settled
InFlight == {i \in 1..Len(taskState) : taskState[i] = "inflight"}
Rejected == {i \in 1..Len(taskState) : taskState[i] = "rejected"}
Fulfilled == {i \in 1..Len(taskState) : taskState[i] = "fulfilled"}

\* run() got as far as calling inParallel
ReachedInParallel ==
  pc = "uploading" \/ (pc = "done" /\ (uploaded # Unset \/ rejection # Unset))

\* the promise inParallel returned has settled
InParallelSettled == pc = "done" /\ (uploaded # Unset \/ rejection # Unset)

\* C1: for a concurrency c >= 1 given to inParallel, the number of store
\* calls that were started and have not settled is at most c in every state
C1_ConcurrencyCeiling ==
  input.concurrency >= 1 => Cardinality(InFlight) <= input.concurrency

\* C1 happens: the ceiling is reached while tasks wait and one has failed
C1_Witness ==
  /\ input.concurrency >= 1
  /\ Cardinality(InFlight) = input.concurrency
  /\ iter <= Len(taskState)
  /\ Rejected # {}

\* C2: when the promise of inParallel settles (with a valid concurrency),
\* every task was started and has settled, whatever tasks failed
C2_AllTasksSettle ==
  (InParallelSettled /\ concurrency >= 1) =>
    /\ Len(taskState) = Len(destinations)
    /\ Len(calls) = Len(destinations)
    /\ \A i \in 1..Len(taskState) : taskState[i] \in {"fulfilled", "rejected"}

\* C2 happens: with one worker the first task failed and a later one ran
C2_Witness ==
  /\ InParallelSettled
  /\ concurrency = 1
  /\ Len(taskState) >= 2
  /\ taskState[1] = "rejected"
  /\ taskState[Len(taskState)] = "fulfilled"

\* C3: when a task failed, the message inParallel rejects with has one line
\* per failed task, each the message of a failed task
C3_OneLinePerFailure ==
  (pc = "done" /\ Rejected # {}) =>
    LET lines == Split(rejection, Newline)
    IN /\ Len(lines) = Cardinality(Rejected)
       /\ \A k \in 1..Len(lines) :
            \E i \in Rejected : lines[k] = StoreError(destinations, i)

\* C4: the 'uploaded' output is set only when every task succeeded and then
\* joins one name per file; when a task failed run() fails without it
C4_NoPartialUploadList ==
  /\ uploaded # Unset =>
       /\ pc = "done"
       /\ failed = Unset
       /\ Len(taskState) = Len(files)
       /\ \A i \in 1..Len(files) : taskState[i] = "fulfilled"
       /\ uploaded = JoinWith([i \in 1..Len(files) |-> destinations[i].destination],
                              Comma)
       /\ Len(files) >= 1 => Len(Split(uploaded, Comma)) = Len(files)
  /\ (pc = "done" /\ Rejected # {}) =>
       /\ rejection # Unset
       /\ failed = FailedMessage(rejection)
       /\ uploaded = Unset

\* C4 happens: the first task succeeded, a later one failed, the run ended
C4_Witness ==
  /\ pc = "done"
  /\ Len(taskState) >= 2
  /\ taskState[1] = "fulfilled"
  /\ Rejected # {}

\* C5: when all tasks succeeded, the results are in input order: entry i is
\* the name the store returned for file i
C5_ResultsInInputOrder ==
  (pc = "done" /\ uploaded # Unset) =>
    /\ Len(results) = Len(files)
    /\ \A i \in 1..Len(files) : results[i] = StoreName(destinations, i)

\* C5 happens: all succeeded and the first store call to settle was not
\* the first task's
C5_Witness ==
  /\ pc = "done"
  /\ uploaded # Unset
  /\ Len(files) >= 2
  /\ settled[1] # 1

ExpectedFiles ==
  {f \in input.tree :
     /\ GlobMatches(IF input.glob = <<>> THEN <<"*", "*", Slash, "*">> ELSE input.glob, f)
     /\ ~(input.processGcloudIgnore /\ f \in input.ignored)}

\* the store call expected for the relative file f of a directory root
ExpectedCall(f) ==
  [source |-> GithubWorkspace \o <<Slash>> \o input.root \o <<Slash>> \o f,
   destination |->
     PosixJoin(<<prefix,
                 IF input.includeParent THEN PosixBasename(input.root) ELSE <<>>,
                 f>>)]

\* C7: a run for a directory root that passes its configuration issues one
\* store call per file the glob matches and the ignore filter keeps, with
\* source absoluteRoot/f and destination join(prefix, parent, f), and no other
C7_OneCallPerFile ==
  (input.kind = "dir" /\ ReachedInParallel /\ concurrency >= 1) =>
    /\ \A k \in 1..Len(calls) : \E f \in ExpectedFiles : calls[k] = ExpectedCall(f)
    /\ \A j, k \in 1..Len(calls) : j # k => calls[j] # calls[k]
    /\ pc = "done" => \A f \in ExpectedFiles :
                        \E k \in 1..Len(calls) : calls[k] = ExpectedCall(f)

\* C7 happens: a directory with a nested file, two files ignored, the rest
\* uploaded under prefix and parent
C7_Witness ==
  /\ input.kind = "dir"
  /\ pc = "done"
  /\ input.includeParent
  /\ prefix # <<>>
  /\ input.processGcloudIgnore
  /\ Cardinality(input.ignored) >= 2
  /\ Len(calls) >= 1
  /\ Cardinality(input.tree) > Len(calls)

\* C10: for a root that is a single file the object key is
\* join(prefix, basename(file)), without the parent, also when parent is true
C10_FileRootHasNoParent ==
  (input.kind = "file" /\ ReachedInParallel) =>
    /\ \A i \in 1..Len(destinations) :
         destinations[i].destination = PosixJoin(<<prefix, PosixBasename(input.root)>>)
    /\ \A k \in 1..Len(calls) :
         /\ calls[k].destination = PosixJoin(<<prefix, PosixBasename(input.root)>>)
         /\ calls[k].source = GithubWorkspace \o <<Slash>> \o input.root
    /\ (concurrency >= 1 /\ input.ignored = {}) => Len(calls) = 1

\* C10 happens: a single file was uploaded with the parent input true
C10_Witness ==
  /\ input.kind = "file"
  /\ input.includeParent
  /\ pc = "done"
  /\ uploaded # Unset
  /\ Len(calls) = 1

\* the trimmed lines of a headers input that are not blank
NonBlankLines(text) ==
  LET pieces == Split(text, Newline)
  IN SelectSeq([i \in 1..Len(pieces) |-> Trim(pieces[i])], LAMBDA l : l # <<>>)

HasColon(line) == \E i \in 1..Len(line) : line[i] = Colon
FirstColon(line) == CHOOSE i \in 1..Len(line) :
                      line[i] = Colon /\ \A j \in 1..(i - 1) : line[j] # Colon
\* the key and the value of a line 'key: value'
KeyOf(line) == Trim(SubSeq(line, 1, FirstColon(line) - 1))
ValueOf(line) == Trim(SubSeq(line, FirstColon(line) + 1, Len(line)))

\* the six header names with a property of their own
RecognizedHeaders ==
  { <<"cache-control">>, <<"content-disposition">>, <<"content-encoding">>,
    <<"content-language">>, <<"content-type">>, <<"custom-time">> }

IsCustomKey(key) == key # <<>> /\ key[1] = customMetadataPrefix

\* every non-blank line is 'key: value' with a key and a value, no key
\* occurs twice, and every key is recognized or a custom metadata key
HeadersWellFormed(text) ==
  LET ls == NonBlankLines(text)
  IN /\ \A i \in 1..Len(ls) :
          /\ HasColon(ls[i])
          /\ KeyOf(ls[i]) # <<>>
          /\ ValueOf(ls[i]) # <<>>
          /\ KeyOf(ls[i]) \in RecognizedHeaders \/ IsCustomKey(KeyOf(ls[i]))
     /\ \A i, j \in 1..Len(ls) :
          (i # j /\ HasColon(ls[i]) /\ HasColon(ls[j])) => KeyOf(ls[i]) # KeyOf(ls[j])

\* the run's configuration is one that must fail fast: the headers do not
\* parse, the root does not exist, or a glob comes with a file root
FailFastInput ==
  \/ ~HeadersWellFormed(input.headers)
  \/ input.kind = "missing"
  \/ (input.kind = "file" /\ input.glob # <<>>)

\* C11: when header parsing fails, the root path does not exist or a glob
\* is given with a file root, run() fails and in that run no onUploadObject
\* callback is invoked and no store call is issued
C11_FailFast ==
  (pc # "start" /\ FailFastInput) =>
    /\ pc = "done"
    /\ failed # Unset
    /\ uploaded = Unset
    /\ events = <<>>
    /\ calls = <<>>
    /\ taskState = <<>>

\* C11 happens: the headers do not parse for a directory with files and a
\* concurrency that would upload them
C11_Witness ==
  /\ pc = "done"
  /\ ~HeadersWellFormed(input.headers)
  /\ input.kind = "dir"
  /\ Cardinality(input.tree) >= 2
  /\ input.concurrency >= 1
  /\ failed # Unset

\* C12: when the configuration is accepted, no file is matched or every
\* matched file is ignored, and the concurrency is valid, run() warns about
\* it, issues no store call, does not call setFailed and ends with the
\* 'uploaded' output set to the empty list
C12_NoFilesIsWarning ==
  (pc # "start" /\ ~FailFastInput /\ ExpectedFiles = {} /\ concurrency >= 1) =>
    /\ "NO_FILES" \in warnings
    /\ failed = Unset
    /\ rejection = Unset
    /\ calls = <<>>
    /\ events = <<>>
    /\ pc = "done" => uploaded = <<>>
    /\ pc = "uploading" => \A w \in 1..Len(workers) : workers[w] = 0

\* C12 happens: a directory whose files are all ignored
C12_Witness ==
  /\ pc = "done"
  /\ input.kind = "dir"
  /\ Cardinality(input.tree) >= 2
  /\ input.ignored = input.tree
  /\ concurrency >= 1
  /\ uploaded = <<>>

\* the file list run() has before the ignore filter
FilesBeforeFilter ==
  expandGlob(rootAndGlob.absoluteRoot, rootAndGlob.computedGlob, input.tree)

\* the ignore predicate returns false for the file
ReturnsFalse(f) == f \notin input.ignored /\ f \notin input.throwing

\* C13: with ignore processing on, no file the predicate matches remains in
\* the list and the files the predicate returns false for are all kept, in
\* their order; with ignore processing off the list is unchanged
C13_FilterKeepsOrder ==
  (pc # "start" /\ ~FailFastInput) =>
    IF input.processGcloudIgnore
    THEN /\ \A i \in 1..Len(files) : files[i] \notin input.ignored
         /\ SelectSeq(files, ReturnsFalse) = SelectSeq(FilesBeforeFilter, ReturnsFalse)
         /\ \A i \in 1..Len(files) : \E j \in 1..Len(FilesBeforeFilter) :
              files[i] = FilesBeforeFilter[j]
    ELSE files = FilesBeforeFilter

\* C13 happens: the first two files match the predicate one after the
\* other and a later file is kept
C13_Witness ==
  /\ pc # "start"
  /\ input.processGcloudIgnore
  /\ Len(FilesBeforeFilter) >= 3
  /\ FilesBeforeFilter[1] \in input.ignored
  /\ FilesBeforeFilter[2] \in input.ignored
  /\ Len(files) >= 1

\* C14: a file the ignore predicate throws for is logged and left out of
\* the files to upload, and the run goes on with the other files
C14_ThrowingFileIsSkipped ==
  (pc # "start" /\ ~FailFastInput /\ input.processGcloudIgnore) =>
    \A f \in input.throwing :
      /\ \E k \in 1..Len(log) : log[k] = f
      /\ \A i \in 1..Len(files) : files[i] # f
      /\ \A k \in 1..Len(calls) : calls[k] # ExpectedCall(f)

\* the content of the metadata run() parses from the headers input
ParsedMetadata ==
  IF input.headers = <<>> THEN EmptyObject
  ELSE parseHeadersInput(input.headers).metadata

\* C18: every task hands the store its own options: the metadata object of
\* each started task is an object of its own, it holds the parsed metadata
\* and what the store call of that task wrote and nothing of another task,
\* and the metadata template of Client.upload stays as it was parsed
C18_OptionsAreIsolated ==
  (pc # "start" /\ HeadersWellFormed(input.headers)) =>
    /\ heap[0] = ParsedMetadata
    /\ \A i \in 1..Len(uploadOpts) :
         /\ uploadOpts[i].metadata # 0
         /\ \A j \in 1..Len(uploadOpts) :
              i # j => uploadOpts[i].metadata # uploadOpts[j].metadata
         /\ heap[uploadOpts[i].metadata] =
              ObjectSet(ParsedMetadata, "contentType",
                        <<"type of ">> \o destinations[i].source)
    /\ \A k \in 1..Len(events) : events[k].opts.metadata = ParsedMetadata

\* C18 happens: with metadata from the headers, three store calls have
\* each modified the options they were given
C18_Witness ==
  /\ pc = "done"
  /\ input.headers # <<>>
  /\ "metadata" \in DOMAIN ParsedMetadata
  /\ Len(uploadOpts) >= 3
  /\ \A i \in 1..Len(uploadOpts) :
       heap[uploadOpts[i].metadata] # ParsedMetadata

\* the events of task i
CallbacksOf(i) ==
  {k \in 1..Len(events) : events[k].kind = "onUploadObject" /\ events[k].task = i}
UploadsOf(i) ==
  {k \in 1..Len(events) : events[k].kind = "upload" /\ events[k].task = i}

\* C19: for every file whose task has started, run()'s onUploadObject was
\* called exactly once, right before the store call for that file, with the
\* file's source, the destination under the bucket and the file's options;
\* when the upload has ended this is so for every file
C19_CallbackBeforeStoreCall ==
  (ReachedInParallel /\ concurrency >= 1) =>
    /\ Len(events) = 2 * Len(calls)
    /\ \A i \in 1..Len(calls) :
         /\ Cardinality(CallbacksOf(i)) = 1
         /\ Cardinality(UploadsOf(i)) = 1
         /\ \A k \in CallbacksOf(i) :
              /\ k + 1 \in UploadsOf(i)
              /\ events[k].source = destinations[i].source
              /\ events[k].destination =
                   bucket \o <<Slash>> \o destinations[i].destination
              /\ events[k].opts = [destination |-> destinations[i].destination,
                                   metadata |-> ParsedMetadata]
              /\ events[k + 1].opts = events[k].opts
              /\ events[k + 1].source = calls[i].source
    /\ pc = "done" => Len(calls) = Len(files)

\* C19 happens: three files were uploaded by two workers and one store
\* call failed
C19_Witness ==
  /\ pc = "done"
  /\ Len(files) >= 3
  /\ concurrency = 2
  /\ Len(events) = 2 * Len(files)
  /\ Rejected # {}

\* the default of the concurrency input that the action documents
DefaultConcurrency == 100

\* C20: when the concurrency that reaches inParallel is not specified (the
\* input converts to 0 or to NaN), the uploads run with the ceiling 100 on
\* every host
C20_DefaultIsHundred ==
  (ReachedInParallel /\ (input.nan \/ input.concurrency = 0)) =>
    /\ concurrency = DefaultConcurrency
    /\ rejection # ConcurrencyError

C23_EachTaskOnce ==
  (ReachedInParallel /\ concurrency >= 1) =>
    /\ \A i \in 1..Len(destinations) :
         Cardinality(UploadsOf(i)) = IF taskState[i] = "pending" THEN 0 ELSE 1
    /\ \A v, w \in 1..Len(workers) :
         (v # w /\ workers[v] # 0) => workers[v] # workers[w]
    /\ InParallelSettled => \A i \in 1..Len(destinations) : taskState[i] # "pending"

\* C23 happens: more workers than tasks, and the one task failed
C23_Witness ==
  /\ InParallelSettled
  /\ Len(workers) > Len(destinations)
  /\ Len(destinations) = 1
  /\ taskState[1] = "rejected"
  /\ Len(calls) = 1

(***************************************************************************)
(* Termination of inParallel.  The store settles every call it was given   *)
(* (weak fairness of the settling of each worker's call), and the          *)
(* continuation of Promise.allSettled runs once every worker has finished. *)
(* The number of workers is at most MaxConcurrency.                        *)
(***************************************************************************)
\* the store call that worker w awaits settles: the step StoreFulfils(w) or
\* StoreRejects(w), told by the entry it adds to settled
StoreSettles(w) ==
  /\ pc = "uploading"
  /\ w <= Len(workers)
  /\ workers[w] # 0
  /\ taskState[workers[w]] = "inflight"
  /\ settled' = Append(settled, workers[w])

SpecLive ==
  /\ Spec
  /\ \A w \in 1..MaxConcurrency : WF_settled(StoreSettles(w))
  /\ WF_vars(AllSettled)

\* C24: once inParallel has started its workers, the promise it returned
\* settles
C24_UploadSettles == (pc = "uploading") ~> InParallelSettled

\* C24 happens: three files, one of them failed, and the promise has settled
C24_Witness ==
  /\ InParallelSettled
  /\ Len(destinations) = 3
  /\ Cardinality(Rejected) = 1
  /\ Cardinality(Fulfilled) = 2

(***************************************************************************)
(* The destination computation alone: main.ts parses the destination       *)
(* input and calls Client.computeDestinations, here for every short        *)
(* destination string, given root and parent flag.                         *)
(***************************************************************************)
Strings(chars, n) == UNION {[1..k -> chars] : k \in 0..n}

DestChars == {"p", Slash, Dot, Backslash, Space}
\* the given roots: plain, nested, with a trailing slash, with a backslash,
\* the workspace itself, its parent, and roots with dot segments
DestRoots ==
  { <<"d">>, <<"p", Slash, "d">>, <<"d", Slash>>, <<"p", Backslash, "d">>,
    <<Dot>>, <<Dot, Dot>>, <<Dot, Slash, "d">>, <<"d", Slash, Dot>>,
    <<"d", Slash, Dot, Dot>>, <<Slash>> }

\* the first k files of the universe, k = 0..MaxFiles
FilePrefixes == {{AllFiles[i] : i \in 1..k} : k \in 0..MaxFiles}

InitDest ==
  /\ pc = "start"
  /\ input \in {[NoInput EXCEPT !.root = r, !.destination = d,
                                !.includeParent = ip, !.tree = t] :
                  r \in DestRoots,
                  d \in Strings(DestChars, MaxLen),
                  ip \in BOOLEAN, t \in FilePrefixes}
  /\ files = <<>>
  /\ bucket = <<>>
  /\ prefix = <<>>
  /\ destinations = <<>>
  /\ concurrency = 0
  /\ iter = 1
  /\ workers = <<>>
  /\ taskState = <<>>
  /\ calls = <<>>
  /\ settled = <<>>
  /\ results = <<>>
  /\ errors = <<>>
  /\ rejection = Unset
  /\ uploaded = Unset
  /\ failed = Unset
  /\ warnings = {}
  /\ rootAndGlob = NoRootAndGlob
  /\ log = <<>>
  /\ heap = EmptyObject
  /\ uploadOpts = <<>>
  /\ events = <<>>
  /\ pool = NoPool

\* main.ts: parseBucketNameAndPrefix(destination), then
\* Client.computeDestinations for the sorted files of a directory root
ComputeDest ==
  /\ pc = "start"
  /\ UNCHANGED pool
  /\ LET bp == parseBucketNameAndPrefix(input.destination)
         list == SortSet(input.tree)
     IN /\ files' = list
        /\ bucket' = bp[1]
        /\ prefix' = bp[2]
        /\ destinations' = computeDestinations(
             [givenRoot |-> input.root,
              absoluteRoot |-> PathResolve(GithubWorkspace, toPlatformPath(input.root)),
              files |-> list, prefix |-> bp[2],
              includeParent |-> input.includeParent])
  /\ pc' = "computed"
  /\ UNCHANGED <<input, concurrency, iter, workers, taskState, calls, settled,
                 results, errors, rejection, uploaded, failed, warnings,
                 rootAndGlob, log, heap, uploadOpts, events>>

NextDest == ComputeDest

SpecDest == InitDest /\ [][NextDest]_vars

\* the non-empty pieces of a path between slashes
Segments(path) == SelectSeq(Split(path, Slash), LAMBDA g : g # <<>>)

\* the parent's name: the last piece of the given root as the caller wrote
\* it (backslashes read as slashes), nothing when includeParent is false
ParentAsWritten ==
  LET segs == Segments(toPosixPath(input.root))
  IN IF input.includeParent /\ segs # <<>> THEN <<segs[Len(segs)]>> ELSE <<>>

\* C8 as stated: one entry per file, in order, whose destination is the
\* '/'-join of the prefix's segments, the basename of the given root when
\* includeParent is true, and the relative file path
C8_PlainJoin ==
  pc = "computed" =>
    /\ Len(destinations) = Len(files)
    /\ \A i \in 1..Len(files) :
         destinations[i].destination =
           JoinWith(Segments(prefix) \o ParentAsWritten \o Segments(files[i]), Slash)

RECURSIVE ResolveDots(_, _)
\* the segments with '.' dropped and each '..' cancelling the segment
\* before it; a '..' with nothing to cancel stays when keep is true
ResolveDots(segs, keep) ==
  IF segs = <<>> THEN <<>>
  ELSE LET init == ResolveDots(SubSeq(segs, 1, Len(segs) - 1), keep)
           last == segs[Len(segs)]
       IN IF last = <<Dot>> THEN init
          ELSE IF last # <<Dot, Dot>> THEN Append(init, last)
          ELSE IF init # <<>> /\ init[Len(init)] # <<Dot, Dot>>
          THEN SubSeq(init, 1, Len(init) - 1)
          ELSE IF keep THEN Append(init, last) ELSE init

\* C8 amended: one entry per file, in order, whose destination is the
\* normalised '/'-join of prefix, parent name and relative file path: '.'
\* and empty segments are dropped, '..' cancels the segment before it, and a
\* leading '/' of the prefix is kept
C8_NormalisedJoin ==
  pc = "computed" =>
    /\ Len(destinations) = Len(files)
    /\ \A i \in 1..Len(files) :
         LET absolute == prefix # <<>> /\ prefix[1] = Slash
         IN /\ destinations[i].destination =
                 (IF absolute THEN <<Slash>> ELSE <<>>) \o
                 JoinWith(ResolveDots(Segments(prefix) \o ParentAsWritten
                                        \o Segments(files[i]), ~absolute), Slash)
            /\ (prefix = <<>> /\ ~input.includeParent) =>
                 destinations[i].destination = files[i]

\* C8 happens: the given root is written '.', the parent is included and
\* there is a prefix
C8_Witness ==
  /\ pc = "computed"
  /\ input.root = <<Dot>>
  /\ input.includeParent
  /\ prefix = <<"p">>
  /\ Len(files) >= 2

\* C9: no object key starts with '/' or '\' or has a '..' segment
C9_NoLeadingSlashNoDotDot ==
  pc = "computed" =>
    \A i \in 1..Len(destinations) :
      LET key == destinations[i].destination
      IN /\ key # <<>> => key[1] \notin {Slash, Backslash}
         /\ \A k \in 1..Len(Split(key, Slash)) : Split(key, Slash)[k] # <<Dot, Dot>>

\* the string has no white space at its start or end
IsTrimmed(str) ==
  str = <<>> \/ (str[1] \notin {Space, Newline, Return}
                 /\ str[Len(str)] \notin {Space, Newline, Return})

\* C16: the trimmed destination is split at its first '/': the bucket is
\* the trimmed text before it and has no '/', the prefix is the trimmed text
\* after it; without a '/' the prefix is empty, and a destination that is
\* empty after trimming gives an empty bucket and an empty prefix
C16_SplitAtFirstSlash ==
  pc = "computed" =>
    LET t == Trim(input.destination)
        slashes == {i \in 1..Len(t) : t[i] = Slash}
    IN /\ \A i \in 1..Len(bucket) : bucket[i] # Slash
       /\ IsTrimmed(bucket) /\ IsTrimmed(prefix)
       /\ slashes = {} => (bucket = t /\ prefix = <<>>)
       /\ slashes # {} =>
            \E i \in slashes :
               /\ \A j \in slashes : i <= j
               /\ bucket = Trim(SubSeq(t, 1, i - 1))
               /\ prefix = Trim(SubSeq(t, i + 1, Len(t)))
       /\ t = <<>> => (bucket = <<>> /\ prefix = <<>>)

\* C16 happens: a destination with two '/', whose prefix keeps the second
C16_Witness ==
  /\ pc = "computed"
  /\ input.destination = <<"p", Slash, Slash>>
  /\ bucket = <<"p">>
  /\ prefix = <<Slash>>

(***************************************************************************)
(* The file list alone: main.ts calls absoluteRootAndComputedGlob and then *)
(* expandGlob, here for roots that are directories, files or missing and   *)
(* for every set of files in the directory that is searched.               *)
(***************************************************************************)
\* the given roots: plain, nested, with a backslash, with a dot segment,
\* and a name that is also a glob pattern
GlobRoots ==
  { <<"d">>, <<"p", Slash, "d">>, <<"p", Backslash, "d">>, <<Dot, Slash, "d">>,
    <<"*">>, <<"p", Slash, "*">> }
GlobInputs == { <<>>, <<"*">>, <<"a">> }

InitGlob ==
  /\ pc = "start"
  /\ input \in {[NoInput EXCEPT !.root = r, !.glob = g, !.kind = k, !.tree = t] :
                  r \in GlobRoots, g \in GlobInputs,
                  k \in {"dir", "file", "missing"}, t \in SUBSET FileUniverse}
  /\ input.kind = "missing" => input.tree = {}
  /\ files = <<>>
  /\ bucket = <<>>
  /\ prefix = <<>>
  /\ destinations = <<>>
  /\ concurrency = 0
  /\ iter = 1
  /\ workers = <<>>
  /\ taskState = <<>>
  /\ calls = <<>>
  /\ settled = <<>>
  /\ results = <<>>
  /\ errors = <<>>
  /\ rejection = Unset
  /\ uploaded = Unset
  /\ failed = Unset
  /\ warnings = {}
  /\ rootAndGlob = NoRootAndGlob
  /\ log = <<>>
  /\ heap = EmptyObject
  /\ uploadOpts = <<>>
  /\ events = <<>>
  /\ pool = NoPool

\* the relative paths of the files under the directory expandGlob searches:
\* for a file root its parent directory, which holds the file itself next
\* to the files of input.tree
SearchedTree ==
  IF input.kind = "file"
  THEN input.tree \cup
         {PosixBasename(PathResolve(GithubWorkspace, toPlatformPath(input.root)))}
  ELSE input.tree

\* main.ts: absoluteRootAndComputedGlob(root, glob), then expandGlob
ComputeGlob ==
  /\ pc = "start"
  /\ UNCHANGED pool
  /\ LET rg == absoluteRootAndComputedGlob(input.root, input.glob, input.kind)
     IN IF rg.err # ""
        THEN /\ failed' = FailedMessage(<<rg.err>>)
             /\ UNCHANGED <<rootAndGlob, files>>
        ELSE /\ rootAndGlob' = rg
             /\ files' = expandGlob(rg.absoluteRoot, rg.computedGlob, SearchedTree)
             /\ UNCHANGED failed
  /\ pc' = "globbed"
  /\ UNCHANGED <<input, bucket, prefix, destinations, concurrency, iter, workers,
                 taskState, calls, settled, results, errors, rejection, uploaded,
                 warnings, log, heap, uploadOpts, events>>

NextGlob == ComputeGlob

SpecGlob == InitGlob /\ [][NextGlob]_vars

\* the given root resolved against the workspace
ResolvedRootOf(root) ==
  <<Slash>> \o JoinWith(ResolveDots(Segments(GithubWorkspace) \o
                                      Segments(toPosixPath(root)), FALSE), Slash)

\* C15: for a root that is a regular file, an empty glob gives the file's
\* parent directory as absolute root, the file's basename as glob and
\* rootIsDir = false, and expanding them gives the basename and nothing
\* else; a glob that is not empty gives an error and no result
C15_FileRootIsOneEntry ==
  (pc = "globbed" /\ input.kind = "file") =>
    LET segs == Segments(ResolvedRootOf(input.root))
        basename == segs[Len(segs)]
        parent == <<Slash>> \o JoinWith(SubSeq(segs, 1, Len(segs) - 1), Slash)
    IN IF input.glob = <<>>
       THEN /\ failed = Unset
            /\ rootAndGlob = [err |-> "", absoluteRoot |-> parent,
                              computedGlob |-> basename, rootIsDir |-> FALSE]
            /\ files = <<basename>>
       ELSE /\ failed # Unset
            /\ rootAndGlob = NoRootAndGlob
            /\ files = <<>>

(***************************************************************************)
(* The headers input alone: main.ts calls parseHeadersInput, here for      *)
(* every input of two lines of which one is any short line and the other   *)
(* is one of a few lines.                                                  *)
(***************************************************************************)
HeaderChars == {Colon, Space, "a", "content-type", customMetadataPrefix}
\* a blank line, good lines with a known and with a custom key, a line with
\* white space around key and value and a carriage return at its end, a
\* line with an unknown key, and lines without key, value or colon
HeaderLines ==
  { <<>>,
    <<"content-type", Colon, "a">>,
    <<"cache-control", Colon, Space, "a", Colon, "a">>,
    <<customMetadataPrefix, "a", Colon, Space, "a">>,
    <<Space, "content-type", Space, Colon, Space, "a", Space, Return>>,
    <<"a", Colon, "a">>,
    <<Colon, "a">>,
    <<"content-type", Colon>>,
    <<"content-type">> }
HeaderSeparators == { <<Newline>>, <<Return, Newline>> }

HeaderInputs ==
  {first \o sep \o second : first \in Strings(HeaderChars, MaxLen),
                            sep \in HeaderSeparators, second \in HeaderLines}
  \cup
  {first \o sep \o second : first \in HeaderLines, sep \in HeaderSeparators,
                            second \in Strings(HeaderChars, MaxLen)}

InitHeaders ==
  /\ pc = "start"
  /\ input \in {[NoInput EXCEPT !.headers = h] : h \in HeaderInputs}
  /\ files = <<>>
  /\ bucket = <<>>
  /\ prefix = <<>>
  /\ destinations = <<>>
  /\ concurrency = 0
  /\ iter = 1
  /\ workers = <<>>
  /\ taskState = <<>>
  /\ calls = <<>>
  /\ settled = <<>>
  /\ results = <<>>
  /\ errors = <<>>
  /\ rejection = Unset
  /\ uploaded = Unset
  /\ failed = Unset
  /\ warnings = {}
  /\ rootAndGlob = NoRootAndGlob
  /\ log = <<>>
  /\ heap = EmptyObject
  /\ uploadOpts = <<>>
  /\ events = <<>>
  /\ pool = NoPool

\* main.ts: metadata = parseHeadersInput(headersInput); when it throws,
\* run() fails and there is no metadata
ParseHeaders ==
  /\ pc = "start"
  /\ UNCHANGED pool
  /\ LET parsed == parseHeadersInput(input.headers)
     IN IF parsed.err # <<>>
        THEN /\ failed' = FailedMessage(parsed.err)
             /\ UNCHANGED heap
        ELSE /\ heap' = [o \in {0} |-> parsed.metadata]
             /\ UNCHANGED failed
  /\ pc' = "parsed"
  /\ UNCHANGED <<input, files, bucket, prefix, destinations, concurrency, iter,
                 workers, taskState, calls, settled, results, errors, rejection,
                 uploaded, warnings, rootAndGlob, log, uploadOpts, events>>

NextHeaders == ParseHeaders

SpecHeaders == InitHeaders /\ [][NextHeaders]_vars

\* the number of properties of the metadata object, those of its custom
\* metadata counted one by one
MetadataSize(metadata) ==
  Cardinality(DOMAIN metadata \ {"metadata"})
  + (IF "metadata" \in DOMAIN metadata
     THEN Cardinality(DOMAIN metadata["metadata"]) ELSE 0)

MaxPaths == 2

WorkspaceFiles == { <<"a">>, <<"d", Slash, "a">>, <<"d", Slash, "b">> }
\* the lines of the path input: a file, a directory, a file in it, the
\* workspace, a path that does not exist, a blank line, a padded line
PathLines ==
  { <<"a">>, <<"d">>, <<"d", Slash, "a">>, <<Dot>>, <<"m">>, <<>>, <<Space, "d">> }
PathInputs ==
  {JoinWith(ls, Newline) : ls \in UNION {[1..k -> PathLines] : k \in 0..MaxPaths}}

InitPaths ==
  /\ pc = "start"
  /\ input \in {[NoInput EXCEPT !.paths = p, !.glob = g, !.world = w] :
                  p \in PathInputs, g \in {<<>>, <<"*">>},
                  w \in SUBSET WorkspaceFiles}
  /\ files = <<>>
  /\ bucket = <<>>
  /\ prefix = <<>>
  /\ destinations = <<>>
  /\ concurrency = 0
  /\ iter = 1
  /\ workers = <<>>
  /\ taskState = <<>>
  /\ calls = <<>>
  /\ settled = <<>>
  /\ results = <<>>
  /\ errors = <<>>
  /\ rejection = Unset
  /\ uploaded = Unset
  /\ failed = Unset
  /\ warnings = {}
  /\ rootAndGlob = NoRootAndGlob
  /\ log = <<>>
  /\ heap = EmptyObject
  /\ uploadOpts = <<>>
  /\ events = <<>>
  /\ pool = NoPool

\* what the caller has when processMultiplePaths threw or returned res
PathsProcessed(res) ==
  IF res.err # ""
  THEN /\ failed' = FailedMessage(<<res.err>>)
       /\ UNCHANGED <<rootAndGlob, files>>
  ELSE /\ rootAndGlob' = res
       /\ files' = res.files
       /\ UNCHANGED failed

\* processMultiplePaths(pathInput, glob); an error it throws fails the run
ProcessPaths ==
  /\ pc = "start"
  /\ UNCHANGED pool
  /\ PathsProcessed(processMultiplePaths(input.paths, input.glob, input.world))
  /\ pc' = "expanded"
  /\ UNCHANGED <<input, bucket, prefix, destinations, concurrency, iter, workers,
                 taskState, calls, settled, results, errors, rejection, uploaded,
                 warnings, log, heap, uploadOpts, events>>

NextPaths == ProcessPaths

SpecPaths == InitPaths /\ [][NextPaths]_vars

\* the roots the path input lists
ListedRoots == NonBlankLines(input.paths)

\* what is at a listed root
RootKind(root) == PathKind(input.world, root)

\* the files found written from the workspace on: under the directory dir
\* of the workspace ('' is the workspace itself)
WrittenFromWorkspace(dir, found) ==
  [i \in 1..Len(found) |->
     IF dir = <<>> THEN found[i] ELSE dir \o <<Slash>> \o found[i]]

\* the expansion of one root with the glob of the run, as a single-root run
\* finds it, each file written from the workspace on
ExpansionOfRoot(rg) ==
  WrittenFromWorkspace(PosixRelative(GithubWorkspace, rg.absoluteRoot),
                       ExpandRoot(rg, input.world))
ExpansionOf(root) ==
  ExpansionOfRoot(absoluteRootAndComputedGlob(root, input.glob, RootKind(root)))

RECURSIVE Expansions(_)
\* the expansions of the roots one after the other
Expansions(roots) ==
  IF roots = <<>> THEN <<>>
  ELSE ExpansionOf(Head(roots)) \o Expansions(Tail(roots))

\* the place of the first occurrence of x in list
FirstSeen(list, x) ==
  CHOOSE i \in 1..Len(list) : list[i] = x /\ \A j \in 1..(i - 1) : list[j] # x

\* processMultiplePaths returned a list for several roots
SeveralRootsExpanded ==
  /\ pc = "expanded"
  /\ Len(ListedRoots) >= 2
  /\ failed = Unset

\* C21: for several roots processMultiplePaths returns the files of the
\* roots' expansions (each root expanded on its own with the same glob, its
\* files written relative to the workspace), every file once, in the order
\* of the files' first occurrences in the concatenation of the expansions
C21_FirstSeenConcatenation ==
  SeveralRootsExpanded =>
    LET all == Expansions(ListedRoots)
    IN /\ {files[i] : i \in 1..Len(files)} = {all[i] : i \in 1..Len(all)}
       /\ \A i, j \in 1..Len(files) : i # j => files[i] # files[j]
       /\ \A i, j \in 1..Len(files) :
            i < j => FirstSeen(all, files[i]) < FirstSeen(all, files[j])

\* C21 happens: the directory d and then the workspace are listed; the
\* files of d come first, once, and the file a after them
C21_Witness ==
  /\ SeveralRootsExpanded
  /\ ListedRoots = << <<"d">>, <<Dot>> >>
  /\ input.world = WorkspaceFiles
  /\ input.glob = <<>>
  /\ files = << <<"d", Slash, "a">>, <<"d", Slash, "b">>, <<"a">> >>

\* C25: when every listed root of a multi-path input is a single file,
\* processMultiplePaths does not report rootIsDir = true
C25_FileRootsAreNotDir ==
  (SeveralRootsExpanded /\ \A i \in 1..Len(ListedRoots) :
                             RootKind(ListedRoots[i]) = "file")
    => ~rootAndGlob.rootIsDir

(***************************************************************************)
(* Client.upload called with a list of files and an onUploadObject         *)
(* callback of the caller, which throws for the tasks of                   *)
(* input.callbackThrows.                                                   *)
(***************************************************************************)
\* the first k files of the universe in order, k = 0..MaxFiles
UploadFileLists == {[i \in 1..k |-> AllFiles[i]] : k \in 0..MaxFiles}

InitUpload ==
  /\ pc = "start"
  /\ files \in UploadFileLists
  /\ input \in {[NoInput EXCEPT !.root = <<"d">>, !.concurrency = c,
                                !.callbackThrows = t] :
                  c \in 1..MaxConcurrency, t \in SUBSET (1..MaxFiles)}
  /\ input.callbackThrows \subseteq 1..Len(files)
  /\ bucket = <<"b">>
  /\ prefix = <<>>
  /\ destinations =
       computeDestinations([givenRoot |-> input.root,
                            absoluteRoot |-> PathResolve(GithubWorkspace, input.root),
                            files |-> files, prefix |-> <<>>,
                            includeParent |-> FALSE])
  /\ concurrency = 0
  /\ iter = 1
  /\ workers = <<>>
  /\ taskState = <<>>
  /\ calls = <<>>
  /\ settled = <<>>
  /\ results = <<>>
  /\ errors = <<>>
  /\ rejection = Unset
  /\ uploaded = Unset
  /\ failed = Unset
  /\ warnings = {}
  /\ rootAndGlob = NoRootAndGlob
  /\ log = <<>>
  /\ heap = EmptyObject
  /\ uploadOpts = <<>>
  /\ events = <<>>
  /\ pool = NoPool

\* client.upload({bucket, files, concurrency, onUploadObject}): the tasks
\* are built and inParallel runs its synchronous part
UploadStart ==
  /\ pc = "start"
  /\ UNCHANGED pool
  /\ LET st == InParallelStartWith(destinations, input.concurrency, bucket,
                                   EmptyObject, input.callbackThrows)
     IN /\ iter' = st.iter
        /\ workers' = st.workers
        /\ taskState' = st.taskState
        /\ calls' = st.calls
        /\ heap' = st.heap
        /\ uploadOpts' = st.uploadOpts
        /\ events' = st.events
  /\ pc' = "uploading"
  /\ concurrency' = input.concurrency
  /\ UNCHANGED <<input, files, bucket, prefix, destinations, settled, results,
                 errors, rejection, uploaded, failed, warnings, rootAndGlob, log>>

NextUpload ==
  \/ UploadStart
  \/ \E w \in 1..Len(workers) : StoreFulfils(w)
  \/ \E w \in 1..Len(workers) : StoreRejects(w)
  \/ \E w \in 1..Len(workers) : CallbackRejects(w)
  \/ AllSettled

SpecUpload == InitUpload /\ [][NextUpload]_vars

\* C26: for a file whose onUploadObject callback throws no store call is
\* ever issued, and when Client.upload has settled and a callback threw, it
\* has rejected with a message that has the message of every exception
\* among its lines
C26_CallbackErrorRejects ==
  pc \in {"uploading", "done"} =>
    /\ \A i \in input.callbackThrows :
         /\ UploadsOf(i) = {}
         /\ \A k \in 1..Len(calls) : calls[k] # StoreCall(destinations, i)
    /\ (pc = "done" /\ input.callbackThrows # {}) =>
         /\ rejection # Unset
         /\ uploaded = Unset
         /\ \A i \in input.callbackThrows :
              \E l \in 1..Len(Split(rejection, Newline)) :
                Split(rejection, Newline)[l] = CallbackError(destinations, i)

\* C26 happens: the callback threw for the second of three files, the other
\* two were uploaded, and Client.upload has rejected
C26_Witness ==
  /\ pc = "done"
  /\ input.callbackThrows = {2}
  /\ Len(destinations) = 3
  /\ Fulfilled = {1, 3}
  /\ Len(calls) = 2
  /\ rejection # Unset

(***************************************************************************)
(* src/src/workerPool.ts: WorkerPool and its Semaphore.  pool.queue holds  *)
(* the queued functions, named 1, 2, ... in the order they were queued;    *)
(* pool.active is the semaphore's count; pool.running holds <<c, i>> when  *)
(* the call c of process() has started function i and it has not           *)
(* completed; pool.calls[c] is the state of the c-th call of process():    *)
(* pos is the index of the for-of loop, phase is "acquiring" (the loop     *)
(* polls for one permit), "waiting" (wait() polls for all permits) or      *)
(* "settled".  pool.completed and pool.queueCalls record what happened.    *)
(* process() is called again only when the call before it has settled.     *)
(***************************************************************************)
MaxQueue == 3
MaxCalls == 2

runVars == <<pc, input, files, bucket, prefix, destinations, concurrency, iter,
             workers, taskState, calls, settled, results, errors, rejection,
             uploaded, failed, warnings, rootAndGlob, log, heap, uploadOpts,
             events>>

\* a variant of tryAcquire that always succeeds
tryAcquireAlways(active, num, max) == TRUE

\* tryAcquire of Semaphore.acquire: whether num more fit under max
tryAcquire(active, num, max) == active + num <= max

\* Semaphore.release(num)
release(active, num) == IF active - num <= 0 THEN 0 ELSE active - num

\* the message of the error Semaphore.acquire(num) throws, or <<>>
AcquireError(num, max) ==
  IF num < 1 THEN <<"semaphore must acquire at least 1">>
  ELSE IF num > max
  THEN <<"semaphore acquire ", ToString(num), " exceeds max of ", ToString(max)>>
  ELSE <<>>

\* the result of the queued function i, and `${err}` when it fails
FnResult(i) == i
FnError(i) == <<"Error: function ", ToString(i), " failed">>

\* a variant that keeps the results in the order of the queue
PushResultByPosition(list, r) ==
  SelectSeq(list, LAMBDA x : x < r) \o <<r>> \o SelectSeq(list, LAMBDA x : x > r)

\* results.push(result)
PushResult(list, r) == Append(list, r)

\* the message process() throws for a non-empty errors list
ProcessError(errs) ==
  <<ToString(Len(errs)), " error(s) occured:", Newline>>
    \o JoinWith([i \in 1..Len(errs) |-> <<"- ">> \o errs[i]], Newline)

\* process() ends with an error that acquire threw
ProcessThrows(p, c, msg) ==
  [p EXCEPT !.calls[c].phase = "settled",
            !.calls[c].outcome = [kind |-> "rejected", value |-> msg]]

\* process() after wait(): it throws the collected errors or returns the
\* results
ProcessReturns(p, c) ==
  [p EXCEPT !.calls[c].phase = "settled",
            !.calls[c].outcome =
              IF Len(p.calls[c].errors) > 0
              THEN [kind |-> "rejected", value |-> ProcessError(p.calls[c].errors)]
              ELSE [kind |-> "fulfilled", value |-> p.calls[c].results]]

\* await this.#sem.wait(): acquire(max) throws, succeeds at once or polls
Wait(p, c) ==
  IF AcquireError(p.max, p.max) # <<>>
  THEN ProcessThrows(p, c, AcquireError(p.max, p.max))
  ELSE IF tryAcquire(p.active, p.max, p.max)
  THEN ProcessReturns([p EXCEPT !.active = @ + p.max], c)
  ELSE [p EXCEPT !.calls[c].phase = "waiting"]

RECURSIVE LoopTurn(_, _)
\* one turn of the for-of loop over the queue, which reads the queue as it
\* is now: acquire(1) throws, polls, or succeeds, and then the function is
\* started and the next turn begins; after the last function comes wait()
LoopTurn(p, c) ==
  LET i == p.calls[c].pos
  IN IF i > Len(p.queue) THEN Wait(p, c)
     ELSE IF AcquireError(1, p.max) # <<>>
     THEN ProcessThrows(p, c, AcquireError(1, p.max))
     ELSE IF tryAcquire(p.active, 1, p.max)
     THEN LoopTurn([p EXCEPT !.active = @ + 1,
                             !.running = @ \cup {<<c, i>>},
                             !.calls[c].pos = i + 1,
                             !.calls[c].phase = "loop"], c)
     ELSE [p EXCEPT !.calls[c].phase = "acquiring"]

InitPool ==
  /\ pool \in {[NoPool EXCEPT !.max = m] : m \in 0..MaxConcurrency}
  /\ pc = "start"
  /\ input = NoInput
  /\ files = <<>>
  /\ bucket = <<>>
  /\ prefix = <<>>
  /\ destinations = <<>>
  /\ concurrency = 0
  /\ iter = 1
  /\ workers = <<>>
  /\ taskState = <<>>
  /\ calls = <<>>
  /\ settled = <<>>
  /\ results = <<>>
  /\ errors = <<>>
  /\ rejection = Unset
  /\ uploaded = Unset
  /\ failed = Unset
  /\ warnings = {}
  /\ rootAndGlob = NoRootAndGlob
  /\ log = <<>>
  /\ heap = EmptyObject
  /\ uploadOpts = <<>>
  /\ events = <<>>

\* pool.queue(fn): the call is recorded with whether process() had begun,
\* what it threw and whether the function was added
Queue ==
  /\ Len(pool.queueCalls) < MaxQueue
  /\ pool' =
       IF pool.started
       THEN [pool EXCEPT !.queueCalls =
               Append(@, [late |-> Len(pool.calls) > 0,
                          thrown |-> <<"Cannot queue - already started">>,
                          added |-> FALSE])]
       ELSE [pool EXCEPT !.queue = Append(@, Len(pool.queue) + 1),
                         !.queueCalls =
                           Append(@, [late |-> Len(pool.calls) > 0,
                                      thrown |-> <<>>, added |-> TRUE])]
  /\ UNCHANGED runVars

\* pool.process() is called: the loop runs up to its first await that does
\* not resolve at once
Process ==
  /\ Len(pool.calls) < MaxCalls
  /\ \A c \in 1..Len(pool.calls) : pool.calls[c].phase = "settled"
  /\ pool' = LoopTurn([pool EXCEPT !.calls =
                         Append(@, [pos |-> 1, phase |-> "loop", results |-> <<>>,
                                    errors |-> <<>>, outcome |-> Unset])],
                      Len(pool.calls) + 1)
  /\ UNCHANGED runVars

\* the interval timer of an acquire(1) that polls finds a permit: the
\* function is started and the loop goes on
AcquireTick(c) ==
  /\ pool.calls[c].phase = "acquiring"
  /\ tryAcquire(pool.active, 1, pool.max)
  /\ pool' = LoopTurn(pool, c)
  /\ UNCHANGED runVars

\* the interval timer of wait() finds all permits free
WaitTick(c) ==
  /\ pool.calls[c].phase = "waiting"
  /\ tryAcquire(pool.active, pool.max, pool.max)
  /\ pool' = Wait(pool, c)
  /\ UNCHANGED runVars

\* a started function fulfils: its result is pushed and its permit released
FnFulfils(c, i) ==
  /\ <<c, i>> \in pool.running
  /\ pool' = [pool EXCEPT !.calls[c].results = PushResult(@, FnResult(i)),
                          !.active = release(@, 1),
                          !.running = @ \ {<<c, i>>},
                          !.completed = Append(@, [call |-> c, fn |-> i, ok |-> TRUE])]
  /\ UNCHANGED runVars

\* a started function rejects: the error is pushed and its permit released
FnRejects(c, i) ==
  /\ <<c, i>> \in pool.running
  /\ pool' = [pool EXCEPT !.calls[c].errors = Append(@, FnError(i)),
                          !.active = release(@, 1),
                          !.running = @ \ {<<c, i>>},
                          !.completed = Append(@, [call |-> c, fn |-> i, ok |-> FALSE])]
  /\ UNCHANGED runVars

NextPool ==
  \/ Queue
  \/ Process
  \/ \E c \in 1..Len(pool.calls) : AcquireTick(c)
  \/ \E c \in 1..Len(pool.calls) : WaitTick(c)
  \/ \E c \in 1..Len(pool.calls), i \in 1..Len(pool.queue) : FnFulfils(c, i)
  \/ \E c \in 1..Len(pool.calls), i \in 1..Len(pool.queue) : FnRejects(c, i)

SpecPool == InitPool /\ [][NextPool]_vars

\* C27: in every reachable state the semaphore's count is within 0..max and
\* at most max (the pool's concurrency) queued functions are running
C27_PoolCeiling ==
  /\ pool.active \in 0..pool.max
  /\ Cardinality(pool.running) <= pool.max

\* C27 happens: two functions run under a concurrency of two while the loop
\* polls for a permit for the third
C27_Witness ==
  /\ pool.max = 2
  /\ Cardinality(pool.running) = 2
  /\ Len(pool.queue) = 3
  /\ pool.calls[1].phase = "acquiring"

\* C28: a call of queue() made once process() has begun throws 'Cannot
\* queue - already started' and does not add its function
C28_QueueAfterProcessRejected ==
  \A k \in 1..Len(pool.queueCalls) :
    pool.queueCalls[k].late =>
      /\ pool.queueCalls[k].thrown = <<"Cannot queue - already started">>
      /\ ~pool.queueCalls[k].added

\* the functions the call c of process() started that have completed, in
\* the order of their completion
CompletedOf(c) == SelectSeq(pool.completed, LAMBDA e : e.call = c)

\* there are queued functions and each has run in the call c and succeeded
AllSucceeded(c) ==
  /\ Len(pool.queue) >= 1
  /\ \A i \in 1..Len(pool.queue) :
       \E k \in 1..Len(CompletedOf(c)) :
         CompletedOf(c)[k].fn = i /\ CompletedOf(c)[k].ok

\* C29: when process() has settled no function it started is still running,
\* and when all queued functions succeeded it has returned one result per
\* queued function, in the order in which the functions completed
C29_ResultsInCompletionOrder ==
  \A c \in 1..Len(pool.calls) :
    pool.calls[c].phase = "settled" =>
      /\ \A i \in 1..Len(pool.queue) : <<c, i>> \notin pool.running
      /\ AllSucceeded(c) =>
           /\ pool.calls[c].outcome.kind = "fulfilled"
           /\ Len(pool.calls[c].outcome.value) = Len(pool.queue)
           /\ pool.calls[c].outcome.value =
                [k \in 1..Len(CompletedOf(c)) |-> FnResult(CompletedOf(c)[k].fn)]

\* C29 happens: of three functions the second completed first, then the
\* first, then the third, and process() returned their results in that order
C29_Witness ==
  /\ Len(pool.calls) = 1
  /\ pool.calls[1].phase = "settled"
  /\ AllSucceeded(1)
  /\ pool.calls[1].outcome.value = <<FnResult(2), FnResult(1), FnResult(3)>>

\* C30: when process() has settled the semaphore holds no permits
C30_NoPermitsHeldAfterProcess ==
  (Len(pool.calls) >= 1 /\ \A c \in 1..Len(pool.calls) : pool.calls[c].phase = "settled")
    => pool.active = 0

====
